---- MODULE Spec2Model ----
(***************************************************************************)
(* Model of the resume pipeline of backend/main.py,                        *)
(* backend/gpt_latex_generator.py and backend/latex_compiler.py.           *)
(*                                                                         *)
(* A text is a sequence of tokens.  The tokens of a LaTeX text are the     *)
(* substrings the code looks for, each with its length in characters:      *)
(*   "F"  the fence ```                (3)                                 *)
(*   "L"  the language tag latex       (5)                                 *)
(*   "D"  \documentclass               (14)                                *)
(*   "E"  \end{document}               (14)                                *)
(*   "W"  one whitespace character     (1)                                 *)
(*   "X"  one other character          (1)                                 *)
(*   "B"  a block of 30 other characters                                   *)
(***************************************************************************)
EXTENDS Integers, Sequences, FiniteSets, TLC

\* ------------------------------------------------------------------ bounds
MaxLen == 3          \* tokens in a completion text (pure-function calls)
MaxDocLen == 3       \* tokens in the current document handed to the refiner
MaxRepairLen == 2    \* tokens in a completion text inside one request
MaxSugLineLen == 3   \* characters in a line of a suggestion response
MaxBodyLen == 3      \* tokens in the body of a fenced completion text
MaxLogLen == 2       \* lines in a log handed to analyze_latex_error
MaxSugLines == 5     \* lines in a suggestion response

\* --------------------------------------------------------------- constants
MAX_ATTEMPTS == 5

None == <<"None">>   \* Python's None where a text is expected

Alphabet == {"F", "L", "D", "E", "W", "X"}
DocAlphabet == {"D", "E", "B"}

SeqsUpTo(S, n) == UNION {[1..k -> S] : k \in 0..n}

CharLen(t) ==
  CASE t = "F" -> 3
    [] t = "L" -> 5
    [] t = "D" -> 14
    [] t = "E" -> 14
    [] t = "B" -> 30
    [] OTHER -> 1

RECURSIVE len(_)
len(s) == IF s = <<>> THEN 0 ELSE CharLen(Head(s)) + len(Tail(s))

\* ---------------------------------------------------- str methods of Python
startswith(s, t) == s # <<>> /\ Head(s) = t
endswith(s, t) == s # <<>> /\ s[Len(s)] = t
contains(s, t) == \E i \in 1..Len(s) : s[i] = t
Count(s, t) == Cardinality({i \in 1..Len(s) : s[i] = t})

RECURSIVE lstrip(_)
lstrip(s) == IF startswith(s, "W") THEN lstrip(Tail(s)) ELSE s

RECURSIVE rstrip(_)
rstrip(s) == IF endswith(s, "W") THEN rstrip(SubSeq(s, 1, Len(s) - 1)) ELSE s

strip(s) == lstrip(rstrip(s))

\* s.split("```")[0] : the tokens before the first fence
RECURSIVE BeforeFence(_)
BeforeFence(s) ==
  IF s = <<>> \/ Head(s) = "F" THEN <<>>
  ELSE <<Head(s)>> \o BeforeFence(Tail(s))

\* s.split("```")[1] for a text s that starts with the fence
SplitFence1(s) == BeforeFence(Tail(s))

END_DOCUMENT == <<"W", "E", "W">>     \* '\n\\end{document}\n'

\* ------------------------------------------------- the completion adapter
\* client.chat.completions.create(...) followed by
\* response.choices[0].message.content.strip(): a text, or a failure.
FailureKinds == {"exception", "timeout", "no_key", "no_content"}
Failure(k) == [kind |-> k, text |-> <<>>]
Content(t) == [kind |-> "text", text |-> t]
Completions(alphabet, n) ==
  {Failure(k) : k \in FailureKinds} \cup {Content(t) : t \in SeqsUpTo(alphabet, n)}

\* the result of a Python call: a returned value or a raised exception
Return(v) == [raised |-> FALSE, value |-> v]
Raise == [raised |-> TRUE, value |-> <<>>]

\* ------------------------------------------------------------ sanitizing
\* strip, remove the fences and the language tag, strip again
strip_fences(content) ==
  LET s0 == strip(content)
      s1 == IF startswith(s0, "F")
            THEN LET seg == SplitFence1(s0)
                 IN  IF startswith(seg, "L") THEN Tail(seg) ELSE seg
            ELSE s0
      s2 == IF endswith(s1, "F") THEN SubSeq(s1, 1, Len(s1) - 1) ELSE s1
  IN  strip(s2)

\* ------------------------------------------------ parsed resume, template
\* parsed_resume['contact'] : no field is guaranteed present
Absent == "absent"
Contacts ==
  [name : {Absent, "Jane Doe"}, email : {Absent, "jane@example.com"},
   phone : {Absent, "555-0100"}]

get(field, default) == IF field = Absent THEN default ELSE field

\* templates/jakes_resume_template_original.tex as read_jakes_template reads
\* it: a document with placeholders, with or without its end marker
Templates ==
  { <<"D", "{{NAME}}", "{{EMAIL}}", "{{PHONE}}", "X", "E", "W">>,
    <<"D", "{FULL_NAME}", "{EMAIL}", "{{FULL_NAME}}", "{PHONE}", "E">>,
    <<"D", "{NAME}", "X", "W">> }

Replacement(tok, user_name, email, phone) ==
  CASE tok \in {"{{FULL_NAME}}", "{{NAME}}", "{FULL_NAME}", "{NAME}"} -> user_name
    [] tok \in {"{{EMAIL}}", "{EMAIL}"} -> email
    [] tok \in {"{{PHONE}}", "{PHONE}"} -> phone
    [] OTHER -> tok

\* a fallback that knows the double-brace spelling only
create_fallback_latex_double_brace(contact, user_name, template) ==
  LET email == get(contact.email, "email@example.com")
      phone == get(contact.phone, "(555) 123-4567")
      fallback_latex ==
        [i \in 1..Len(template) |->
           IF template[i] \in {"{{FULL_NAME}}", "{{NAME}}", "{{EMAIL}}", "{{PHONE}}"}
           THEN Replacement(template[i], user_name, email, phone)
           ELSE template[i]]
  IN  IF ~endswith(strip(fallback_latex), "E")
      THEN rstrip(fallback_latex) \o END_DOCUMENT
      ELSE fallback_latex

create_fallback_latex(contact, user_name, template) ==
  LET email == get(contact.email, "email@example.com")
      phone == get(contact.phone, "(555) 123-4567")
      fallback_latex ==
        [i \in 1..Len(template) |-> Replacement(template[i], user_name, email, phone)]
  IN  IF ~endswith(strip(fallback_latex), "E")
      THEN rstrip(fallback_latex) \o END_DOCUMENT
      ELSE fallback_latex

\* ---------------------------------------------------------------- generator
\* a generator that lets a completion failure escape
generate_latex_resume_raising(contact, user_name, template, c) ==
  IF c.kind # "text" THEN Raise
  ELSE LET latex_code == strip_fences(c.text)
       IN  IF ~startswith(latex_code, "D")
           THEN Return(create_fallback_latex(contact, user_name, template))
           ELSE IF ~contains(latex_code, "E")
                THEN Return(latex_code \o END_DOCUMENT)
                ELSE Return(latex_code)

\* a generator that forwards a text without the start marker
generate_latex_resume_forwarding(contact, user_name, template, c) ==
  IF c.kind # "text"
  THEN Return(create_fallback_latex(contact, user_name, template))
  ELSE LET latex_code == strip_fences(c.text)
       IN  IF ~contains(latex_code, "E")
           THEN Return(latex_code \o END_DOCUMENT)
           ELSE Return(latex_code)

generate_latex_resume(contact, user_name, template, c) ==
  IF c.kind # "text"
  THEN \* except Exception: the fallback
       Return(create_fallback_latex(contact, user_name, template))
  ELSE LET latex_code == strip_fences(c.text)
       IN  IF ~startswith(latex_code, "D")
           THEN Return(create_fallback_latex(contact, user_name, template))
           ELSE IF ~contains(latex_code, "E")
                THEN Return(latex_code \o END_DOCUMENT)
                ELSE Return(latex_code)

\* ------------------------------------------------------------------ refiner
\* the text refine_latex_resume holds after its end-marker step
refined_after_end_marker(refined_latex) ==
  IF ~endswith(strip(refined_latex), "E")
  THEN refined_latex \o END_DOCUMENT
  ELSE refined_latex

\* a refiner without the start-marker check
refine_latex_resume_unchecked(current_latex, c) ==
  IF c.kind # "text" THEN Return(current_latex)
  ELSE LET refined_latex == refined_after_end_marker(strip_fences(c.text))
       IN  IF 2 * len(refined_latex) < len(current_latex)
           THEN Return(current_latex)
           ELSE Return(refined_latex)

\* a refiner without the length guard
refine_latex_resume_unguarded(current_latex, c) ==
  IF c.kind # "text" THEN Return(current_latex)
  ELSE LET stripped == strip_fences(c.text)
       IN  IF ~startswith(stripped, "D")
           THEN Return(current_latex)
           ELSE Return(refined_after_end_marker(stripped))

refine_latex_resume(current_latex, c) ==
  IF c.kind # "text"
  THEN Return(current_latex)
  ELSE LET stripped == strip_fences(c.text)
       IN  IF ~startswith(stripped, "D")
           THEN Return(current_latex)
           ELSE LET refined_latex == refined_after_end_marker(stripped)
                IN  \* refined_length < original_length * 0.5
                    IF 2 * len(refined_latex) < len(current_latex)
                    THEN Return(current_latex)
                    ELSE Return(refined_latex)

\* ------------------------------------------------------------------- repair
\* a repair that lets a text without the start marker replace the candidate
fix_latex_compilation_errors_replacing(latex_code, error_log, c) ==
  IF error_log = None THEN Raise
  ELSE IF c.kind # "text" THEN Return(latex_code)
  ELSE LET fixed_latex == strip_fences(c.text)
       IN  IF ~contains(fixed_latex, "E")
           THEN Return(fixed_latex \o END_DOCUMENT)
           ELSE Return(fixed_latex)

fix_latex_compilation_errors(latex_code, error_log, c) ==
  IF error_log = None
  THEN \* error_log[:2000] in the prompt, before the try
       Raise
  ELSE IF c.kind # "text"
  THEN Return(latex_code)
  ELSE LET fixed_latex == strip_fences(c.text)
       IN  IF ~startswith(fixed_latex, "D")
           THEN Return(latex_code)
           ELSE IF ~contains(fixed_latex, "E")
                THEN Return(fixed_latex \o END_DOCUMENT)
                ELSE Return(fixed_latex)

\* ------------------------------------------------------- diagnostic logs
\* A log is a sequence of log lines; each line is one of the messages
\* below.  Needles(l) are the substrings searched for that occur in
\* the lower-cased line l.
Missing == <<"Missing">>    \* a key the result dict does not have

LogAlphabet ==
  {"! Undefined control sequence", "Undefined control sequence",
   "! Missing $ inserted", "Missing character",
   "! Package fontspec Error", "Package hyperref Warning",
   "Font shape not found", "! LaTeX Error", "Overfull hbox"}

lower(line) ==
  CASE line = "! Undefined control sequence" -> "! undefined control sequence"
    [] line = "Undefined control sequence" -> "undefined control sequence"
    [] line = "! Missing $ inserted" -> "! missing $ inserted"
    [] line = "Missing character" -> "missing character"
    [] line = "! Package fontspec Error" -> "! package fontspec error"
    [] line = "Package hyperref Warning" -> "package hyperref warning"
    [] line = "Font shape not found" -> "font shape not found"
    [] line = "! LaTeX Error" -> "! latex error"
    [] line = "LaTeX not installed" -> "latex not installed"
    [] OTHER -> line

Needles(l) ==
  CASE l = "! undefined control sequence" ->
           {"! undefined control sequence", "undefined control sequence"}
    [] l = "undefined control sequence" -> {"undefined control sequence"}
    [] l = "! missing $ inserted" -> {"! missing", "missing"}
    [] l = "missing character" -> {"missing"}
    [] l = "! package fontspec error" -> {"! package", "package", "font", "error"}
    [] l = "package hyperref warning" -> {"package"}
    [] l = "font shape not found" -> {"font", "not found"}
    [] l = "! latex error" -> {"error"}
    [] l = "latex not installed" -> {"latex not installed"}
    [] OTHER -> {}

\* needle in log.lower()
in_lower(needle, log) == \E i \in 1..Len(log) : needle \in Needles(lower(log[i]))

\* log or ""
or_empty(log) == IF log = None THEN <<>> ELSE log

\* needle in log, without the lower()
in_text(needle, log) == \E i \in 1..Len(log) : needle \in Needles(log[i])

\* an analysis that searches the log as it is written
analyze_latex_error_case_sensitive(log_output) ==
  IF log_output = <<>> \/ log_output = None THEN "unknown"
  ELSE IF in_text("! undefined control sequence", log_output) THEN "undefined_command"
  ELSE IF in_text("! missing", log_output) THEN "syntax_error"
  ELSE IF in_text("! package", log_output) THEN "package_error"
  ELSE IF in_text("font", log_output)
          /\ (in_text("not found", log_output) \/ in_text("error", log_output))
       THEN "font_error"
  ELSE "general_error"

analyze_latex_error(log_output) ==
  IF log_output = <<>> \/ log_output = None   \* if not log_output
  THEN "unknown"
  ELSE IF in_lower("! undefined control sequence", log_output) THEN "undefined_command"
  ELSE IF in_lower("! missing", log_output) THEN "syntax_error"
  ELSE IF in_lower("! package", log_output) THEN "package_error"
  ELSE IF in_lower("font", log_output)
          /\ (in_lower("not found", log_output) \/ in_lower("error", log_output))
       THEN "font_error"
  ELSE "general_error"

get_error_suggestions(error_msg, log_output) ==
  IF "latex not installed" \in Needles(lower(error_msg))
  THEN <<"Install BasicTeX: brew install --cask basictex",
         "Then restart the backend server">>
  ELSE IF in_lower("! undefined control sequence", or_empty(log_output))
  THEN <<"Check LaTeX command syntax",
         "Verify all packages are included in template">>
  ELSE <<"Check LaTeX syntax and spacing", "Verify template is valid",
         "Try a simpler LaTeX template first">>

\* ----------------------------------------------------- the compiler adapter
\* What the toolchain does on one compile_with_fallback call:
\*   installed : check_latex_installation's answer
\*   run       : "pdf" (a non-empty PDF exists after the passes), "nopdf",
\*               "timeout" (subprocess.TimeoutExpired) or "exception"
\*   log       : the .log file, or stdout when there is none
Logs(n) == SeqsUpTo(LogAlphabet, n)

ToolchainOutcomes(logs) ==
  {[installed |-> FALSE, run |-> "nopdf", log |-> <<>>]}
    \cup [installed : {TRUE}, run : {"pdf", "nopdf"}, log : logs]
    \cup [installed : {TRUE}, run : {"timeout", "exception"}, log : {<<>>}]

\* One pdflatex pass, a subprocess.run call with timeout=60:
\*   end        : "exit" (the process ended), "timeout" (TimeoutExpired) or
\*                "raise" (any other exception)
\*   returncode : the exit code, never looked at
\*   pdf        : what the pass did to the output PDF before it ended
PdflatexPasses ==
  [end : {"exit", "timeout", "raise"}, returncode : {0, 1},
   pdf : {"written", "empty", "removed", "untouched"}]

\* the output PDF after a pass: "absent", "empty" (size 0) or "nonempty"
pdf_after(pdf_file, pass) ==
  CASE pass.pdf = "written" -> "nonempty"
    [] pass.pdf = "empty" -> "empty"
    [] pass.pdf = "removed" -> "absent"
    [] OTHER -> pdf_file

\* a compile that takes a non-zero exit code for a failed call
run_pdflatex_checked(passes) ==
  LET first == passes[1]
      second == passes[2]
      pdf_file == pdf_after(pdf_after("absent", first), second)
  IN  IF first.end = "timeout" THEN [passes_run |-> 1, run |-> "timeout"]
      ELSE IF first.end = "raise" \/ first.returncode # 0
      THEN [passes_run |-> 1, run |-> "exception"]
      ELSE IF second.end = "timeout" THEN [passes_run |-> 2, run |-> "timeout"]
      ELSE IF second.end = "raise" \/ second.returncode # 0
      THEN [passes_run |-> 2, run |-> "exception"]
      ELSE [passes_run |-> 2,
            run |-> IF pdf_file = "nonempty" THEN "pdf" ELSE "nopdf"]

\* latex_compiler.py 77-105: for attempt in range(2): subprocess.run(...),
\* then pdf_file.exists() and pdf_file.stat().st_size > 0
run_pdflatex(passes) ==
  LET first == passes[1]
      second == passes[2]
      pdf_file == pdf_after(pdf_after("absent", first), second)
  IN  IF first.end = "timeout" THEN [passes_run |-> 1, run |-> "timeout"]
      ELSE IF first.end = "raise" THEN [passes_run |-> 1, run |-> "exception"]
      ELSE IF second.end = "timeout" THEN [passes_run |-> 2, run |-> "timeout"]
      ELSE IF second.end = "raise" THEN [passes_run |-> 2, run |-> "exception"]
      ELSE [passes_run |-> 2,
            run |-> IF pdf_file = "nonempty" THEN "pdf" ELSE "nopdf"]

\* (success, pdf_path_or_error, log_output)
compile_latex_to_pdf(o) ==
  CASE o.run = "pdf" -> <<TRUE, "pdf_path", o.log>>
    [] o.run = "nopdf" -> <<FALSE, "PDF not generated", o.log>>
    [] o.run = "timeout" -> <<FALSE, "Compilation timeout (60s exceeded)", None>>
    [] OTHER -> <<FALSE, "Compilation error", None>>

compile_with_fallback(o) ==
  IF ~o.installed
  THEN [success |-> FALSE, error |-> "LaTeX not installed", latex_log |-> Missing,
        error_analysis |-> "missing", suggestions |-> Missing]
  ELSE LET r == compile_latex_to_pdf(o)
       IN  IF r[1]
           THEN [success |-> TRUE, error |-> "missing", latex_log |-> r[3],
                 error_analysis |-> "missing", suggestions |-> Missing]
           ELSE [success |-> FALSE, error |-> r[2], latex_log |-> r[3],
                 error_analysis |-> analyze_latex_error(or_empty(r[3])),
                 suggestions |-> get_error_suggestions(r[2], r[3])]

\* dict.get(key, default) for a key that holds a text or a list
dict_get(value, default) == IF value = Missing THEN default ELSE value

\* ------------------------------------------------------ suggestion generator
\* The response text is a sequence of lines; a line is a sequence of
\* characters: "1" a digit, "." a full stop, "W" a blank, "-" a hyphen,
\* "*" the bullet character, "a" any other character.
SugAlphabet == {"1", ".", "W", "-", "*", "a"}

default_suggestions ==
  << <<"Add metrics and quantifiable achievements">>,
     <<"Incorporate top 5 keywords from the job description">>,
     <<"Use strong action verbs">>,
     <<"Highlight technical skills matching the role requirements">> >>

\* '. ' in suggestion
HasDotBlank(s) == \E i \in 1..(Len(s) - 1) : s[i] = "." /\ s[i + 1] = "W"

\* suggestion.split('. ', 1)[1]
AfterDotBlank(s) ==
  LET i == CHOOSE i \in 1..(Len(s) - 1) :
             /\ s[i] = "." /\ s[i + 1] = "W"
             /\ \A j \in 1..(i - 1) : ~(s[j] = "." /\ s[j + 1] = "W")
  IN  SubSeq(s, i + 2, Len(s))

\* the suggestions one response line contributes: none or one
parse_suggestion_line(raw) ==
  LET line == strip(raw)
  IN  IF line # <<>> /\ line[1] \in {"1", "*", "-"}
      THEN LET suggestion ==
                 IF line[1] = "1" /\ HasDotBlank(line) THEN AfterDotBlank(line)
                 ELSE IF Len(line) >= 2 /\ line[1] \in {"*", "-"} /\ line[2] = "W"
                      THEN SubSeq(line, 3, Len(line))
                      ELSE line
           IN  IF strip(suggestion) # <<>> THEN <<strip(suggestion)>> ELSE <<>>
      ELSE <<>>

RECURSIVE parse_suggestions(_)
parse_suggestions(lines) ==
  IF lines = <<>> THEN <<>>
  ELSE parse_suggestion_line(Head(lines)) \o parse_suggestions(Tail(lines))

\* a suggestion generator that returns every parsed suggestion
get_resume_suggestions_untruncated(c) ==
  IF c.kind # "text"
  THEN Return(default_suggestions)
  ELSE LET suggestions == parse_suggestions(c.text)
       IN  IF suggestions # <<>>
           THEN Return(suggestions)
           ELSE Return(default_suggestions)

\* a suggestion generator that lets a completion failure escape
get_resume_suggestions_raising(c) ==
  IF c.kind # "text" THEN Raise
  ELSE LET suggestions == parse_suggestions(c.text)
       IN  IF suggestions # <<>>
           THEN Return(SubSeq(suggestions, 1, IF Len(suggestions) < 4 THEN Len(suggestions) ELSE 4))
           ELSE Return(default_suggestions)

get_resume_suggestions(c) ==
  IF c.kind # "text"
  THEN Return(default_suggestions)
  ELSE LET suggestions == parse_suggestions(c.text)
       IN  IF suggestions # <<>>
           THEN Return(SubSeq(suggestions, 1, IF Len(suggestions) < 4 THEN Len(suggestions) ELSE 4))
           ELSE Return(default_suggestions)

\* ==================================================== one enhance_resume request
VARIABLES
  pc,                  \* where the request handler stands
  parsed_resume,       \* what parse_resume_file returned
  latex_code,          \* the current candidate
  attempt,             \* the attempt counter
  compilation_result,  \* what the last compile_with_fallback call returned
  response,            \* the JSONResponse, once returned
  succeed_at,          \* the compiler's script: the first attempt that yields a PDF
  compile_calls,       \* compile_with_fallback calls made
  repair_calls,        \* fix_latex_compilation_errors calls made
  completion_calls,    \* completion requests made, over all call sites
  compiled,            \* the candidate passed to the last compile call
  last_repair,         \* how the last repair ended
  call,                \* one call of a generator function, with its result
  requests,            \* concurrent requests: each request's local variables
  files,               \* concurrent requests: the files written, with their writer
  next_uid             \* concurrent requests: the next fresh uuid4

vars ==
  <<pc, parsed_resume, latex_code, attempt, compilation_result, response,
    succeed_at, compile_calls, repair_calls, completion_calls, compiled,
    last_repair, call, requests, files, next_uid>>

conc_vars == <<requests, files, next_uid>>

request_vars ==
  <<pc, parsed_resume, latex_code, attempt, compilation_result, response,
    succeed_at, compile_calls, repair_calls, completion_calls, compiled,
    last_repair, conc_vars>>

\* the variables of the one-request specifications
single_vars ==
  <<pc, parsed_resume, latex_code, attempt, compilation_result, response,
    succeed_at, compile_calls, repair_calls, completion_calls, compiled,
    last_repair, call>>

NoText == <<"-">>     \* a variable that holds no text yet
NoContact == [name |-> Absent, email |-> Absent, phone |-> Absent]
NoResult ==
  [success |-> FALSE, error |-> "none", latex_log |-> Missing,
   error_analysis |-> "missing", suggestions |-> Missing]
NoResponse ==
  [status |-> 0, kind |-> "none", details |-> "none", compilation_attempts |-> -1,
   error_analysis |-> "none", suggestions |-> <<>>, latex |-> NoText]
NoCall == [fn |-> "none"]

\* the inputs one request draws from
RequestContacts ==
  {NoContact, [name |-> "Jane Doe", email |-> "jane@example.com", phone |-> Absent]}
RequestAlphabet == {"F", "D", "E", "X"}
RequestTemplate == <<"D", "{{NAME}}", "{{EMAIL}}", "{{PHONE}}", "X", "E", "W">>
RequestLogs ==
  {<<>>, <<"! Undefined control sequence">>, <<"Font shape not found">>}
SuggestionCompletions ==
  {Failure("timeout"), Content(<< <<"1", ".", "W", "a">>, <<"-", "W", "a">> >>)}

\* the uploaded file as parse_resume_file finds it: text is what the
\* extractor returns, contact what extract_contact_info finds in it
UploadedFiles ==
  [exists : BOOLEAN, suffix : {".pdf", ".txt"}, text : {"", "Error", "text"},
   contact : RequestContacts]

NoParse == [error |-> "none", contact |-> NoContact]
ParseError(e) == [error |-> e, contact |-> NoContact]

\* parsers.py 82-116
parse_resume_file(file) ==
  IF ~file.exists THEN ParseError("File not found")
  ELSE IF file.suffix \notin {".pdf", ".docx", ".doc"}
  THEN ParseError("Unsupported file type")
  ELSE IF file.text = "" THEN ParseError("Failed to extract text from file")
  ELSE IF file.text = "Error" THEN ParseError("Failed to extract text")
  ELSE [error |-> "none", contact |-> file.contact]

RequestInit ==
  /\ pc = "start"
  /\ parsed_resume = NoParse
  /\ latex_code = NoText
  /\ attempt = 0
  /\ compilation_result = NoResult
  /\ response = NoResponse
  /\ succeed_at \in 0..(MAX_ATTEMPTS + 1)
  /\ compile_calls = 0
  /\ repair_calls = 0
  /\ completion_calls = 0
  /\ compiled = NoText
  /\ last_repair = "none"

NoRequests == <<>>
NoConcurrency == requests = NoRequests /\ files = {} /\ next_uid = 1

Init == RequestInit /\ call = NoCall /\ NoConcurrency

Respond(r) == /\ response' = r
              /\ pc' = "done"

\* main.py 60-83: the configuration checks
CheckConfig ==
  /\ pc = "start"
  /\ \E api_key \in BOOLEAN, latex_installed \in BOOLEAN :
       IF ~api_key
       THEN Respond([NoResponse EXCEPT !.status = 400, !.kind = "CONFIG",
                                       !.details = "OpenAI API key not configured"])
       ELSE IF ~latex_installed
       THEN Respond([NoResponse EXCEPT !.status = 400, !.kind = "CONFIG",
                                       !.details = "LaTeX not installed"])
       ELSE /\ pc' = "parse"
            /\ UNCHANGED response
  /\ UNCHANGED <<parsed_resume, latex_code, attempt, compilation_result, succeed_at,
                 compile_calls, repair_calls, completion_calls, compiled,
                 last_repair, call, conc_vars>>

\* a handler that goes on with a resume that was not parsed
ParseResume_continuing ==
  /\ pc = "parse"
  /\ \E file \in UploadedFiles : parsed_resume' = parse_resume_file(file)
  /\ pc' = "generate"
  /\ UNCHANGED <<response, latex_code, attempt, compilation_result, succeed_at,
                 compile_calls, repair_calls, completion_calls, compiled,
                 last_repair, call, conc_vars>>

\* main.py 95-113: parse_resume_file and its error result
ParseResume ==
  /\ pc = "parse"
  /\ \E file \in UploadedFiles :
       /\ parsed_resume' = parse_resume_file(file)
       /\ IF parsed_resume'.error # "none"
          THEN Respond([NoResponse EXCEPT !.status = 400, !.kind = "PARSE",
                                          !.details = parsed_resume'.error])
          ELSE /\ pc' = "generate"
               /\ UNCHANGED response
  /\ UNCHANGED <<latex_code, attempt, compilation_result, succeed_at, compile_calls,
                 repair_calls, completion_calls, compiled, last_repair, call, conc_vars>>

\* main.py 112-127: the initial candidate
Generate ==
  /\ pc = "generate"
  /\ \E c \in Completions(RequestAlphabet, MaxRepairLen) :
       LET contact == parsed_resume.contact
           applicant_name == get(contact.name, "Professional Candidate")
           r == generate_latex_resume(contact, applicant_name, RequestTemplate, c)
       IN  /\ completion_calls' = completion_calls + 1
           /\ IF r.raised
              THEN /\ Respond([NoResponse EXCEPT !.status = 500, !.kind = "ERROR",
                                                 !.details = "Resume generation failed"])
                   /\ UNCHANGED <<latex_code, attempt>>
              ELSE /\ latex_code' = r.value
                   /\ attempt' = 0
                   /\ pc' = "compile"
                   /\ UNCHANGED response
  /\ UNCHANGED <<parsed_resume, compilation_result, succeed_at, compile_calls,
                 repair_calls, compiled, last_repair, call, conc_vars>>

\* main.py 129-131: one compile_with_fallback call
Compile ==
  /\ pc = "compile"
  /\ attempt <= MAX_ATTEMPTS
  /\ \E o \in ToolchainOutcomes(RequestLogs) :
       /\ (o.installed /\ o.run = "pdf") <=> (attempt = succeed_at)
       /\ compilation_result' = compile_with_fallback(o)
  /\ compile_calls' = compile_calls + 1
  /\ compiled' = latex_code
  /\ pc' = "result"
  /\ UNCHANGED <<parsed_resume, latex_code, attempt, response, succeed_at,
                 repair_calls, completion_calls, last_repair, call, conc_vars>>

\* main.py 133-159: the compiled candidate is returned
Succeed ==
  /\ pc = "result"
  /\ compilation_result.success
  /\ \E c \in SuggestionCompletions :
       LET r == get_resume_suggestions(c)
       IN  /\ completion_calls' = completion_calls + 1
           /\ IF r.raised
              THEN Respond([NoResponse EXCEPT !.status = 500, !.kind = "ERROR",
                                              !.details = "Resume generation failed"])
              ELSE Respond([NoResponse EXCEPT !.status = 200, !.kind = "SUCCESS",
                                              !.suggestions = r.value,
                                              !.compilation_attempts = attempt,
                                              !.latex = latex_code])
  /\ UNCHANGED <<parsed_resume, latex_code, attempt, compilation_result, succeed_at,
                 compile_calls, repair_calls, compiled, last_repair, call, conc_vars>>

\* how a repair call ends
RepairEnd(error_log, c) ==
  IF error_log = None THEN "raised"
  ELSE IF c.kind # "text" THEN "call_failed"
  ELSE IF ~startswith(strip_fences(c.text), "D") THEN "rejected"
  ELSE "accepted"

\* main.py 160-174: a failed attempt below MAX_ATTEMPTS is repaired
Repair ==
  /\ pc = "result"
  /\ ~compilation_result.success
  /\ attempt < MAX_ATTEMPTS
  /\ \E c \in Completions(RequestAlphabet, MaxRepairLen) :
       LET error_log == dict_get(compilation_result.latex_log, <<"No log available">>)
           r == fix_latex_compilation_errors(latex_code, error_log, c)
       IN  /\ repair_calls' = repair_calls + 1
           /\ last_repair' = RepairEnd(error_log, c)
           /\ IF r.raised
              THEN /\ Respond([NoResponse EXCEPT !.status = 500, !.kind = "ERROR",
                                                 !.details = "Resume generation failed"])
                   /\ UNCHANGED <<latex_code, attempt, completion_calls>>
              ELSE /\ latex_code' = r.value
                   /\ attempt' = attempt + 1
                   /\ completion_calls' = completion_calls + 1
                   /\ pc' = "compile"
                   /\ UNCHANGED response
  /\ UNCHANGED <<parsed_resume, compilation_result, succeed_at, compile_calls,
                 compiled, call, conc_vars>>

\* main.py 175-199: the failed attempt MAX_ATTEMPTS ends the request
Exhaust ==
  /\ pc = "result"
  /\ ~compilation_result.success
  /\ attempt >= MAX_ATTEMPTS
  /\ Respond([NoResponse EXCEPT
                !.status = 400, !.kind = "EXHAUSTED",
                !.details = compilation_result.error,
                !.error_analysis =
                   IF compilation_result.error_analysis = "missing"
                   THEN "{}" ELSE compilation_result.error_analysis,
                !.suggestions = dict_get(compilation_result.suggestions, <<>>),
                !.compilation_attempts = attempt - 1,
                !.latex = latex_code])
  /\ UNCHANGED <<parsed_resume, latex_code, attempt, compilation_result, succeed_at,
                 compile_calls, repair_calls, completion_calls, compiled,
                 last_repair, call, conc_vars>>

Next == CheckConfig \/ ParseResume \/ Generate \/ Compile \/ Succeed \/ Repair \/ Exhaust

Spec == Init /\ [][Next]_vars

\* ==================================================== one refine_resume request
\* latex_code is the submitted document until refine_latex_resume has
\* returned, and refined_latex from then on.
SubmittedDocuments == {<<"D", "E">>, <<"D", "X", "E", "W">>, <<"X">>}

InitRefine ==
  /\ pc = "refine_start"
  /\ parsed_resume = NoParse
  /\ latex_code \in SubmittedDocuments
  /\ attempt = 0
  /\ compilation_result = NoResult
  /\ response = NoResponse
  /\ succeed_at = 0
  /\ compile_calls = 0
  /\ repair_calls = 0
  /\ completion_calls = 0
  /\ compiled = NoText
  /\ last_repair = "none"
  /\ call = NoCall
  /\ NoConcurrency

\* main.py 238-245: the API key check
RefineCheckConfig ==
  /\ pc = "refine_start"
  /\ \E api_key \in BOOLEAN :
       IF ~api_key
       THEN Respond([NoResponse EXCEPT !.status = 400, !.kind = "CONFIG",
                                       !.details = "OpenAI API key not configured"])
       ELSE /\ pc' = "refine"
            /\ UNCHANGED response
  /\ UNCHANGED <<parsed_resume, latex_code, attempt, compilation_result, succeed_at,
                 compile_calls, repair_calls, completion_calls, compiled,
                 last_repair, call, conc_vars>>

\* main.py 250: refine_latex_resume
Refine ==
  /\ pc = "refine"
  /\ \E c \in Completions(RequestAlphabet, MaxRepairLen) :
       latex_code' = refine_latex_resume(latex_code, c).value
  /\ completion_calls' = completion_calls + 1
  /\ pc' = "refine_compile"
  /\ UNCHANGED <<parsed_resume, attempt, compilation_result, response, succeed_at,
                 compile_calls, repair_calls, compiled, last_repair, call, conc_vars>>

\* main.py 253-254: the one compile_with_fallback call
RefineCompile ==
  /\ pc = "refine_compile"
  /\ \E o \in ToolchainOutcomes(RequestLogs) :
       compilation_result' = compile_with_fallback(o)
  /\ compile_calls' = compile_calls + 1
  /\ compiled' = latex_code
  /\ pc' = "refine_result"
  /\ UNCHANGED <<parsed_resume, latex_code, attempt, response, succeed_at,
                 repair_calls, completion_calls, last_repair, call, conc_vars>>

\* main.py 256-274: the refined document compiled
RefineSucceed ==
  /\ pc = "refine_result"
  /\ compilation_result.success
  /\ \E c \in SuggestionCompletions :
       Respond([NoResponse EXCEPT !.status = 200, !.kind = "REFINED",
                                  !.suggestions = get_resume_suggestions(c).value,
                                  !.latex = latex_code])
  /\ completion_calls' = completion_calls + 1
  /\ UNCHANGED <<parsed_resume, latex_code, attempt, compilation_result, succeed_at,
                 compile_calls, repair_calls, compiled, last_repair, call, conc_vars>>

\* main.py 275-284: the refined document did not compile
RefineFail ==
  /\ pc = "refine_result"
  /\ ~compilation_result.success
  /\ Respond([NoResponse EXCEPT
                !.status = 400, !.kind = "REFINE_FAILED",
                !.details = "LaTeX compilation failed after refinement",
                !.latex = latex_code])
  /\ UNCHANGED <<parsed_resume, latex_code, attempt, compilation_result, succeed_at,
                 compile_calls, repair_calls, completion_calls, compiled,
                 last_repair, call, conc_vars>>

NextRefine ==
  RefineCheckConfig \/ Refine \/ RefineCompile \/ RefineSucceed \/ RefineFail

SpecRefine == InitRefine /\ [][NextRefine]_vars

\* ================================================ one call of one function
\* The generator functions are pure in their arguments and the completion
\* adapter's answer; SpecFn calls each once with every input within the bounds.
Documents == SeqsUpTo(DocAlphabet, MaxDocLen)
FixCandidates == {<<"D", "E">>, <<"D", "B", "E", "W">>}
FixLogs == {None, <<>>, <<"! Missing $ inserted">>}
\* the lines of a response of several lines: a numbered item, two bulleted
\* items, a line of prose, an empty line
SugLines ==
  {<<"1", ".", "W", "a">>, <<"-", "W", "a", "a">>, <<"*", "W", "a", "W", "a">>,
   <<"a", "a">>, <<>>}
SuggestionResponses ==
  {Failure(k) : k \in FailureKinds}
    \cup {Content(<<l>>) : l \in SeqsUpTo(SugAlphabet, MaxSugLineLen)}
    \cup {Content(t) : t \in SeqsUpTo(SugLines, MaxSugLines)}

\* a completion text in a fenced block: the opening fence, an optional
\* language tag, the body, the closing fence
FencedBodies ==
  {b \in SeqsUpTo(Alphabet, MaxBodyLen) : startswith(b, "D") /\ contains(b, "E")}
Fenced(tag, pre, body, post) == <<"F">> \o tag \o pre \o body \o post \o <<"F">>
FencedTexts ==
  {Fenced(tag, pre, body, post) :
     tag \in {<<>>, <<"L">>}, pre \in {<<>>, <<"W">>},
     body \in FencedBodies, post \in {<<>>, <<"W">>}}
SanitizedCompletions ==
  Completions(Alphabet, MaxLen) \cup {Content(t) : t \in FencedTexts}

BlankCall ==
  [fn |-> "none", completion |-> Failure("exception"), contact |-> NoContact,
   user_name |-> "Professional Candidate", template |-> <<>>, current |-> <<>>,
   error_log |-> <<>>, result |-> Return(<<>>), passes |-> <<>>, passes_run |-> 0]

CallGenerate ==
  /\ call = NoCall
  /\ \E contact \in Contacts, template \in Templates, c \in SanitizedCompletions :
       LET user_name == get(contact.name, "Professional Candidate")
       IN  call' = [BlankCall EXCEPT
                      !.fn = "generate", !.completion = c, !.contact = contact,
                      !.user_name = user_name, !.template = template,
                      !.result = generate_latex_resume(contact, user_name, template, c)]
  /\ UNCHANGED request_vars

CallRefine ==
  /\ call = NoCall
  /\ \E current_latex \in Documents, c \in Completions(Alphabet, MaxLen) :
       call' = [BlankCall EXCEPT
                  !.fn = "refine", !.completion = c, !.current = current_latex,
                  !.result = refine_latex_resume(current_latex, c)]
  /\ UNCHANGED request_vars

CallFix ==
  /\ call = NoCall
  /\ \E latex \in FixCandidates, error_log \in FixLogs, c \in SanitizedCompletions :
       call' = [BlankCall EXCEPT
                  !.fn = "fix", !.completion = c, !.current = latex,
                  !.error_log = error_log,
                  !.result = fix_latex_compilation_errors(latex, error_log, c)]
  /\ UNCHANGED request_vars

AnalyzedLogs == Logs(MaxLogLen) \cup {None}

CallAnalyze ==
  /\ call = NoCall
  /\ \E log_output \in AnalyzedLogs :
       call' = [BlankCall EXCEPT
                  !.fn = "analyze", !.error_log = log_output,
                  !.result = Return(<<analyze_latex_error(log_output)>>)]
  /\ UNCHANGED request_vars

\* compile_latex_to_pdf as compile_with_fallback calls it, pdflatex found
CallCompile ==
  /\ call = NoCall
  /\ \E first \in PdflatexPasses, second \in PdflatexPasses, log \in RequestLogs :
       LET passes == <<first, second>>
           ran == run_pdflatex(passes)
           o == [installed |-> TRUE, run |-> ran.run, log |-> log]
       IN  call' = [BlankCall EXCEPT
                      !.fn = "compile", !.error_log = log, !.passes = passes,
                      !.passes_run = ran.passes_run,
                      !.result = Return(compile_latex_to_pdf(o))]
  /\ UNCHANGED request_vars

CallSuggest ==
  /\ call = NoCall
  /\ \E c \in SuggestionResponses :
       call' = [BlankCall EXCEPT
                  !.fn = "suggest", !.completion = c,
                  !.result = get_resume_suggestions(c)]
  /\ UNCHANGED request_vars

InitFn == /\ RequestInit
          /\ succeed_at = 0
          /\ call = NoCall
          /\ NoConcurrency

NextFn ==
  CallGenerate \/ CallRefine \/ CallFix \/ CallAnalyze \/ CallCompile \/ CallSuggest

SpecFn == InitFn /\ [][NextFn]_vars

\* ===================================================== concurrent requests
\* Every request runs the handler of its endpoint on its own local variables;
\* the requests share the uploads directory.  A step is the code between two
\* blocking calls.  uuid4().hex is a fresh value at every draw; its first 8
\* digits, the file id, are not: every draw of a file id may repeat an
\* earlier one, and here they all do.  A file name written twice has two
\* writers, so two requests of either endpoint are the case to examine.
Requests == {1, 2}

FILE_ID == "0a1b2c3d"

\* f"{stem}_{uid}_{part}{n}"
Prefix(stem, uid, part, n) == [stem |-> stem, uid |-> uid, part |-> part, n |-> n]

\* f"{filename_prefix}_{file_id}{ext}"
FileName(filename_prefix, file_id, ext) ==
  [prefix |-> filename_prefix, id |-> file_id, ext |-> ext]

\* main.py 90: f"{uid}_{resume_file.filename}"
upload_name(uid, filename) == FileName(Prefix("", uid, filename, -1), "", "")

\* a prefix that names the attempt only
attempt_prefix_shared(uid, n) == Prefix("resume", 0, "attempt", n)

\* main.py 131: f"resume_{uid}_attempt{attempt}"
attempt_prefix(uid, n) == Prefix("resume", uid, "attempt", n)

\* main.py 121, 138, 171, 254
initial_prefix(uid) == Prefix("resume", uid, "initial", -1)
final_prefix(uid) == Prefix("resume", uid, "final", -1)
fixed_prefix(uid, n) == Prefix("resume", uid, "fixed_attempt", n)
refined_prefix(uid) == Prefix("refined", uid, "", -1)

\* gpt_latex_generator.py 427-435
save_latex_file(filename_prefix) == FileName(filename_prefix, FILE_ID, ".tex")

\* latex_compiler.py 60-115: the files one compile_latex_to_pdf call writes
compile_files(filename_prefix, o) ==
  LET tex == FileName(filename_prefix, FILE_ID, ".tex")
      pdf == FileName(filename_prefix, FILE_ID, ".pdf")
      log == FileName(filename_prefix, FILE_ID, ".log")
      error_log == FileName(filename_prefix, "ERROR", ".log")
  IN  CASE ~o.installed -> {}
        [] o.run = "pdf" -> {tex, pdf, log}
        [] o.run = "nopdf" -> {tex, log, error_log}
        [] o.run = "timeout" -> {tex, log}
        [] OTHER -> {tex}

ConcCompletions == {Failure("timeout"), Content(<<"D", "E">>)}
ConcOutcomes ==
  [installed : {TRUE}, run : {"pdf", "nopdf", "timeout", "exception"}, log : {<<>>}]
ConcFiles == {f \in UploadedFiles : f.exists /\ f.contact = NoContact}

Incoming(endpoint) ==
  [endpoint |-> endpoint, pc |-> "start", uid |-> 0,
   latex_code |-> IF endpoint = "refine" THEN <<"D", "X", "E">> ELSE NoText,
   attempt |-> 0, result |-> NoResult]

InitConc ==
  /\ RequestInit
  /\ succeed_at = 0
  /\ call = NoCall
  /\ requests \in [Requests -> {Incoming("enhance"), Incoming("refine")}]
  /\ files = {}
  /\ next_uid = 1

Written(r, names) == files' = files \cup {[name |-> n, writer |-> r] : n \in names}

Step(r, new) == /\ requests' = [requests EXCEPT ![r] = new]
                /\ UNCHANGED single_vars

\* main.py 62-83, 238-245
ConcCheckConfig(r) ==
  LET q == requests[r]
  IN  /\ q.pc = "start"
      /\ \E configured \in BOOLEAN :
           Step(r, [q EXCEPT !.pc = IF ~configured THEN "done"
                                    ELSE IF q.endpoint = "enhance" THEN "upload"
                                    ELSE "refine"])
      /\ UNCHANGED <<files, next_uid>>

\* main.py 89-107: the upload is written and parsed
ConcUpload(r) ==
  LET q == requests[r]
  IN  /\ q.pc = "upload"
      /\ \E file \in ConcFiles :
           Step(r, [q EXCEPT !.uid = next_uid,
                             !.pc = IF parse_resume_file(file).error # "none"
                                    THEN "done" ELSE "generate"])
      /\ Written(r, {upload_name(next_uid, "resume.pdf")})
      /\ next_uid' = next_uid + 1

\* main.py 112-127: the initial candidate is generated and saved
ConcGenerate(r) ==
  LET q == requests[r]
  IN  /\ q.pc = "generate"
      /\ \E c \in ConcCompletions :
           Step(r, [q EXCEPT
                      !.latex_code =
                         generate_latex_resume(NoContact, "Professional Candidate",
                                               RequestTemplate, c).value,
                      !.attempt = 0, !.pc = "compile"])
      /\ Written(r, {save_latex_file(initial_prefix(q.uid))})
      /\ UNCHANGED next_uid

\* main.py 250-253: the document is refined and the request gets its uid
ConcRefine(r) ==
  LET q == requests[r]
  IN  /\ q.pc = "refine"
      /\ \E c \in ConcCompletions :
           Step(r, [q EXCEPT !.latex_code = refine_latex_resume(q.latex_code, c).value,
                             !.uid = next_uid, !.pc = "compile"])
      /\ next_uid' = next_uid + 1
      /\ UNCHANGED files

\* main.py 131, 254: one compile_with_fallback call
ConcCompile(r) ==
  LET q == requests[r]
      filename_prefix == IF q.endpoint = "enhance" THEN attempt_prefix(q.uid, q.attempt)
                         ELSE refined_prefix(q.uid)
  IN  /\ q.pc = "compile"
      /\ \E o \in ConcOutcomes :
           /\ Step(r, [q EXCEPT !.result = compile_with_fallback(o), !.pc = "result"])
           /\ Written(r, compile_files(filename_prefix, o))
      /\ UNCHANGED next_uid

\* main.py 133-159, 256-274: the compiled document is saved and returned
ConcSucceed(r) ==
  LET q == requests[r]
  IN  /\ q.pc = "result"
      /\ q.result.success
      /\ Step(r, [q EXCEPT !.pc = "done"])
      /\ Written(r, {save_latex_file(IF q.endpoint = "enhance" THEN final_prefix(q.uid)
                                     ELSE refined_prefix(q.uid))})
      /\ UNCHANGED next_uid

\* main.py 160-174: the repair, its result saved
ConcRepair(r) ==
  LET q == requests[r]
  IN  /\ q.pc = "result"
      /\ q.endpoint = "enhance"
      /\ ~q.result.success
      /\ q.attempt < MAX_ATTEMPTS
      /\ \E c \in ConcCompletions :
           LET error_log == dict_get(q.result.latex_log, <<"No log available">>)
               fixed == fix_latex_compilation_errors(q.latex_code, error_log, c)
           IN  IF fixed.raised
               THEN /\ Step(r, [q EXCEPT !.pc = "done"])
                    /\ UNCHANGED files
               ELSE /\ Step(r, [q EXCEPT !.latex_code = fixed.value,
                                         !.attempt = q.attempt + 1, !.pc = "compile"])
                    /\ Written(r, {save_latex_file(fixed_prefix(q.uid, q.attempt))})
      /\ UNCHANGED next_uid

\* main.py 175-199, 275-284: the failure response
ConcFail(r) ==
  LET q == requests[r]
  IN  /\ q.pc = "result"
      /\ ~q.result.success
      /\ q.endpoint = "refine" \/ q.attempt >= MAX_ATTEMPTS
      /\ Step(r, [q EXCEPT !.pc = "done"])
      /\ UNCHANGED <<files, next_uid>>

NextConc ==
  \E r \in Requests :
    \/ ConcCheckConfig(r) \/ ConcUpload(r) \/ ConcGenerate(r) \/ ConcRefine(r)
    \/ ConcCompile(r) \/ ConcSucceed(r) \/ ConcRepair(r) \/ ConcFail(r)

SpecConc == InitConc /\ [][NextConc]_vars

\* ================================================================= claims
LoopEntered == compile_calls >= 1
Terminal == pc = "done" /\ LoopEntered

\* C1: the repair loop ends after at most MAX_ATTEMPTS + 1 compile calls, in
\* exactly one of SUCCESS (200) and EXHAUSTED (400), whatever the compiler
\* and the completion adapter answer.
C1_LoopEndsInSuccessOrExhausted ==
  /\ compile_calls <= MAX_ATTEMPTS + 1
  /\ Terminal => response.kind \in {"SUCCESS", "EXHAUSTED"}

\* C2: a compile call that follows a repair whose completion was rejected by
\* the start-marker check, or whose completion call failed, is given the
\* candidate the previous compile call was given.
C2_RejectedRepairKeepsCandidate ==
  [][(pc = "compile" /\ pc' = "result" /\ last_repair \in {"rejected", "call_failed"})
       => compiled' = compiled]_vars

\* C2 witness: a compile call has run after a rejected repair, with the
\* candidate of the call before it.
C2_Witness ==
  /\ pc = "result"
  /\ compile_calls >= 2
  /\ last_repair = "rejected"
  /\ compiled = latex_code

\* C3: a failed compile call that yields no log (a timeout), at an attempt
\* below MAX_ATTEMPTS, is followed by a repair and the next attempt; the
\* request never ends with the 500 response because of it.
C3_NoLogFailureIsRepaired ==
  (pc = "done" /\ ~compilation_result.success /\ compilation_result.latex_log = None
     /\ attempt < MAX_ATTEMPTS)
    => response.status # 500

\* the text the refiner measures: fences stripped, trimmed and, when it starts
\* with the start marker and does not end with the end marker, the end marker
\* appended
MeasuredRefinement(text) ==
  LET stripped == strip_fences(text)
  IN  IF startswith(stripped, "D") THEN refined_after_end_marker(stripped) ELSE stripped

RefineText == call.fn = "refine" /\ call.completion.kind = "text"

\* C4 as stated: the refiner returns its input whenever the completion text,
\* fences stripped and trimmed, is shorter than half the input.
C4_ShortStrippedResultReturnsOriginal ==
  (RefineText /\ 2 * len(strip_fences(call.completion.text)) < len(call.current))
    => call.result = Return(call.current)

\* C4 amended: the refiner returns its input whenever the completion text,
\* fences stripped, trimmed and with the end marker appended where the refiner
\* appends it, is shorter than half the input, with or without the markers.
C4_ShortMeasuredResultReturnsOriginal ==
  (RefineText /\ 2 * len(MeasuredRefinement(call.completion.text)) < len(call.current))
    => call.result = Return(call.current)

\* C4 witness: a completion with both markers, shorter than half the input,
\* and the input came back.
C4_Witness ==
  /\ RefineText
  /\ startswith(strip_fences(call.completion.text), "D")
  /\ contains(strip_fences(call.completion.text), "E")
  /\ 2 * len(MeasuredRefinement(call.completion.text)) < len(call.current)
  /\ call.result.value = call.current
  /\ call.current # MeasuredRefinement(call.completion.text)

GenerateText == call.fn = "generate" /\ call.completion.kind = "text"

\* C5: a completion text that, fences stripped and trimmed, does not start
\* with the start marker makes the generator return create_fallback_latex's
\* document, which is built from the template and the contact fields alone.
C5_RejectedGenerationReturnsFallback ==
  (GenerateText /\ ~startswith(strip_fences(call.completion.text), "D"))
    => call.result =
         Return(create_fallback_latex(call.contact, call.user_name, call.template))

\* C5 witness: a non-empty text without the start marker was answered by the
\* fallback, which differs from the text.
C5_Witness ==
  /\ GenerateText
  /\ strip_fences(call.completion.text) # <<>>
  /\ ~startswith(strip_fences(call.completion.text), "D")
  /\ call.result.value = create_fallback_latex(call.contact, call.user_name, call.template)
  /\ call.result.value # strip_fences(call.completion.text)

\* C6: the refiner returns its input when the completion call fails or the
\* text does not start with the start marker; whatever it returns either
\* starts with the start marker or is its input.
C6_RejectedRefinementReturnsOriginal ==
  call.fn = "refine" =>
    /\ (call.completion.kind # "text"
          \/ ~startswith(strip_fences(call.completion.text), "D"))
         => call.result = Return(call.current)
    /\ ~call.result.raised
    /\ call.result.value = call.current \/ startswith(call.result.value, "D")

\* C6 witness: a snippet without the start marker was discarded for an input
\* that itself does not start with the start marker.
C6_Witness ==
  /\ RefineText
  /\ strip_fences(call.completion.text) # <<>>
  /\ ~startswith(strip_fences(call.completion.text), "D")
  /\ ~startswith(call.current, "D")
  /\ call.current # <<>>
  /\ call.result.value = call.current

\* the sanitized text a sanitizing site hands on: the returned value, unless
\* the refiner's length guard put the input in its place
SanitizingCall ==
  /\ call.fn \in {"generate", "fix", "refine"}
  /\ call.completion.kind = "text"
  /\ startswith(strip_fences(call.completion.text), "D")
  /\ call.fn = "fix" => call.error_log # None
  /\ call.fn = "refine" =>
       ~(2 * len(MeasuredRefinement(call.completion.text)) < len(call.current))

\* C7: at the three sanitizing sites an accepted text without the end marker
\* comes out with exactly one end marker, at its end, and an accepted text
\* with end markers comes out with as many.
C7_EndMarkerAppendedOnlyWhenAbsent ==
  SanitizingCall =>
    LET accepted == strip_fences(call.completion.text)
        out == call.result.value
    IN  IF contains(accepted, "E")
        THEN Count(out, "E") = Count(accepted, "E")
        ELSE Count(out, "E") = 1 /\ endswith(rstrip(out), "E")

\* C8: on every failure of the completion adapter the generator, the refiner
\* and the suggestion generator return their fallback value and do not raise.
C8_CompletionFailureIsAbsorbed ==
  (call.fn \in {"generate", "refine", "suggest"} /\ call.completion.kind \in FailureKinds)
    => /\ ~call.result.raised
       /\ call.fn = "generate" =>
            call.result.value =
              create_fallback_latex(call.contact, call.user_name, call.template)
       /\ call.fn = "refine" => call.result.value = call.current
       /\ call.fn = "suggest" => call.result.value = default_suggestions

\* C8 witness: the generator answered a completion timeout with the fallback.
C8_Witness ==
  /\ call.fn = "generate"
  /\ call.completion.kind = "timeout"
  /\ ~call.result.raised
  /\ startswith(call.result.value, "D")

\* C9: a compiler that fails at attempts 0..k-1 and yields a PDF at attempt
\* k <= MAX_ATTEMPTS ends the request in SUCCESS with compilation_attempts
\* = k, after k repair calls and k + 1 compile calls.
C9_SuccessAtAttemptK ==
  (pc = "done" /\ response.kind \notin {"CONFIG", "PARSE"} /\ succeed_at <= MAX_ATTEMPTS)
    => /\ response.kind = "SUCCESS"
       /\ response.compilation_attempts = succeed_at
       /\ repair_calls = succeed_at
       /\ compile_calls = succeed_at + 1

\* C10: when every compile call 0..MAX_ATTEMPTS has failed, the request ends
\* in EXHAUSTED with the classification of the last call's log and at least
\* one suggestion, whichever failure result the last call returned.
C10_ExhaustedCarriesAnalysisAndSuggestions ==
  (pc = "done" /\ compile_calls = MAX_ATTEMPTS + 1 /\ ~compilation_result.success)
    => /\ response.kind = "EXHAUSTED"
       /\ response.error_analysis =
            analyze_latex_error(or_empty(dict_get(compilation_result.latex_log, None)))
       /\ response.suggestions # <<>>

\* C11: a completion text that is an opening fence, an optional language
\* tag, a body that starts with the start marker and contains the end marker,
\* and a closing fence is sanitized by the generator and the repair to exactly
\* the body with its surrounding whitespace trimmed.
C11_FencedBodyReturnedIntact ==
  (call.fn \in {"generate", "fix"} /\ call.completion.kind = "text"
     /\ call.error_log # None)
    => \A tag \in {<<>>, <<"L">>}, pre \in {<<>>, <<"W">>},
          body \in FencedBodies, post \in {<<>>, <<"W">>} :
         call.completion.text = Fenced(tag, pre, body, post)
           => (~call.result.raised /\ call.result.value = strip(body))

\* the log of an analyze_latex_error call has a line whose lower-cased text
\* contains the needle
LogHas(needle) ==
  /\ call.error_log \notin {None, <<>>}
  /\ \E i \in 1..Len(call.error_log) : needle \in Needles(lower(call.error_log[i]))

AnalyzedType == call.result.value[1]

\* C12 as stated: for every log, the empty and the absent one included,
\* analyze_latex_error returns one of the five types undefined_command,
\* syntax_error, package_error, font_error, general_error, the first whose
\* rule matches in a case-insensitive search for 'undefined control
\* sequence', 'missing', 'package', and 'font' with 'not found' or 'error'.
C12_FiveTypesByPlainNeedles ==
  call.fn = "analyze" =>
    AnalyzedType =
      IF LogHas("undefined control sequence") THEN "undefined_command"
      ELSE IF LogHas("missing") THEN "syntax_error"
      ELSE IF LogHas("package") THEN "package_error"
      ELSE IF LogHas("font") /\ (LogHas("not found") \/ LogHas("error"))
           THEN "font_error"
      ELSE "general_error"

\* C12, amended: analyze_latex_error returns "unknown" exactly for the empty
\* or absent log, and for any other log the first type whose rule matches in
\* a case-insensitive search for '! undefined control sequence', '! missing',
\* '! package', and 'font' with 'not found' or 'error'; general_error when
\* none matches.
C12_SixTypesByErrorLineNeedles ==
  call.fn = "analyze" =>
    LET undefined == LogHas("! undefined control sequence")
        missing == LogHas("! missing")
        package == LogHas("! package")
        font == LogHas("font") /\ (LogHas("not found") \/ LogHas("error"))
    IN  /\ AnalyzedType \in {"unknown", "undefined_command", "syntax_error",
                             "package_error", "font_error", "general_error"}
        /\ (AnalyzedType = "unknown") <=> (call.error_log \in {None, <<>>})
        /\ (AnalyzedType = "undefined_command") <=> undefined
        /\ (AnalyzedType = "syntax_error") <=> (~undefined /\ missing)
        /\ (AnalyzedType = "package_error") <=> (~undefined /\ ~missing /\ package)
        /\ (AnalyzedType = "font_error")
             <=> (~undefined /\ ~missing /\ ~package /\ font)

\* a log whose second line decides the type, by the order of the rules
C12_Witness ==
  /\ call.fn = "analyze"
  /\ call.error_log = <<"! Missing $ inserted", "! Undefined control sequence">>
  /\ AnalyzedType = "undefined_command"

\* line.strip() begins with a digit, the bullet or the hyphen
ListLine(l) == strip(l) # <<>> /\ strip(l)[1] \in {"1", "*", "-"}

\* C13: get_resume_suggestions always returns between 1 and 4 non-empty
\* strings, and exactly the four default suggestions when the completion call
\* fails, the response is empty or no line of it is a list line.
C13_OneToFourSuggestions ==
  call.fn = "suggest" =>
    LET c == call.completion
        value == call.result.value
    IN  /\ ~call.result.raised
        /\ Len(value) \in 1..4
        /\ \A i \in 1..Len(value) : value[i] # <<>> /\ strip(value[i]) # <<>>
        /\ (c.kind # "text" \/ \A i \in 1..Len(c.text) : ~ListLine(c.text[i]))
             => value = default_suggestions

\* a response with five list lines, of which four are returned
C13_Witness ==
  /\ call.fn = "suggest"
  /\ call.completion.kind = "text"
  /\ Len(call.completion.text) = 5
  /\ \A i \in 1..5 : ListLine(call.completion.text[i])
  /\ Len(call.result.value) = 4

Placeholders ==
  {"{{FULL_NAME}}", "{{NAME}}", "{FULL_NAME}", "{NAME}", "{{EMAIL}}", "{EMAIL}",
   "{{PHONE}}", "{PHONE}"}

\* the template of a generate call with the applicant's values in the place
\* of its placeholders
Substituted ==
  [i \in 1..Len(call.template) |->
     LET tok == call.template[i]
     IN  IF tok \in {"{{FULL_NAME}}", "{{NAME}}", "{FULL_NAME}", "{NAME}"}
         THEN call.user_name
         ELSE IF tok \in {"{{EMAIL}}", "{EMAIL}"}
         THEN (IF call.contact.email = Absent THEN "email@example.com"
               ELSE call.contact.email)
         ELSE IF tok \in {"{{PHONE}}", "{PHONE}"}
         THEN (IF call.contact.phone = Absent THEN "(555) 123-4567"
               ELSE call.contact.phone)
         ELSE tok]

FallbackReturned ==
  /\ ~call.result.raised
  /\ call.result.value \in {Substituted, rstrip(Substituted) \o <<"W", "E", "W">>}
  /\ \A i \in 1..Len(call.result.value) : call.result.value[i] \notin Placeholders
  /\ startswith(call.result.value, "D")

GenerationFailed == call.fn = "generate" /\ call.completion.kind \in FailureKinds

C15_FailureReportedAfterRepairs ==
  (pc = "done" /\ response.kind \in {"EXHAUSTED", "REFINE_FAILED"})
    => repair_calls = MAX_ATTEMPTS

\* C16: a configuration error, the missing API key or the toolchain found
\* not installed at the start of the request or by compile_with_fallback at
\* any attempt, is returned without a completion, repair or compiler call
\* after its detection.
C16_NoCallAfterConfigError ==
  [][/\ response'.kind = "CONFIG"
          => (compile_calls' = 0 /\ repair_calls' = 0 /\ completion_calls' = 0)
     /\ compilation_result.error = "LaTeX not installed"
          => /\ compile_calls' = compile_calls
             /\ repair_calls' = repair_calls
             /\ completion_calls' = completion_calls]_vars

\* C17: when parse_resume_file reports an error, enhance_resume returns a
\* 400 response that carries the error detail, and makes no generation,
\* repair or compiler call.
C17_ParseErrorEndsRequest ==
  parsed_resume.error # "none"
    => /\ pc = "done"
       /\ response.status = 400
       /\ response.kind = "PARSE"
       /\ response.details = parsed_resume.error
       /\ compile_calls = 0 /\ repair_calls = 0 /\ completion_calls = 0

\* an upload of an unsupported type was answered
C17_Witness ==
  /\ pc = "done"
  /\ parsed_resume.error = "Unsupported file type"
  /\ response.details = "Unsupported file type"

FailedBelowBudget ==
  pc = "result" /\ ~compilation_result.success /\ attempt < MAX_ATTEMPTS

\* C18: within one request the compile attempts are numbered 0, 1, 2, ...
\* consecutively, attempt N + 1 starting only after attempt N's result and
\* the repair that followed it; a repair is called only directly after a
\* failed compile at an attempt below MAX_ATTEMPTS, and each such failure is
\* followed by exactly one repair completion request.
C18_CompileAndRepairAlternate ==
  [][/\ compile_calls' # compile_calls
          => /\ pc = "compile"
             /\ compile_calls' = compile_calls + 1
             /\ compile_calls = attempt
             /\ repair_calls = attempt
     /\ repair_calls' # repair_calls
          => (FailedBelowBudget /\ repair_calls' = repair_calls + 1)
     /\ FailedBelowBudget
          => /\ repair_calls' = repair_calls + 1
             /\ completion_calls' = completion_calls + 1]_vars

\* the list marker a stripped response line begins with: the bullet or the
\* hyphen, or a number and its separator
Marker(line) ==
  IF line[1] \in {"*", "-"} THEN <<line[1]>>
  ELSE IF Len(line) >= 2 /\ line[2] = "." THEN <<"1", ".">>
  ELSE <<>>

BeginsWith(s, prefix) ==
  Len(s) >= Len(prefix) /\ SubSeq(s, 1, Len(prefix)) = prefix

\* the list lines of a response, in response order
RECURSIVE ListLines(_)
ListLines(lines) ==
  IF lines = <<>> THEN <<>>
  ELSE (IF ListLine(Head(lines)) THEN <<strip(Head(lines))>> ELSE <<>>)
         \o ListLines(Tail(lines))

\* C19: every string get_resume_suggestions returns from a parsed response
\* is taken from a list line of the response with its list marker stripped,
\* so that it does not begin with the number-and-separator or the bullet of
\* that line; the items are in response order, the first 4 at most.
C19_MarkersStripped ==
  (call.fn = "suggest" /\ call.completion.kind = "text"
     /\ ListLines(call.completion.text) # <<>>)
    => LET lines == ListLines(call.completion.text)
           value == call.result.value
       IN  /\ Len(value) = (IF Len(lines) < 4 THEN Len(lines) ELSE 4)
           /\ \A i \in 1..Len(value) :
                LET marker == Marker(lines[i])
                IN  (marker # <<>> /\ Len(lines[i]) > Len(marker)
                       /\ lines[i][Len(marker) + 1] = "a")
                      => /\ ~BeginsWith(value[i], marker)
                         /\ \E k \in 1..Len(lines[i]) :
                              value[i] = SubSeq(lines[i], k, Len(lines[i]))

NoSharedName == \A f, g \in files : f.name = g.name => f.writer = g.writer

\* C20: in every interleaving of concurrent requests, each with its fresh
\* uid, no two requests write the same file name (.tex, .pdf, .log,
\* _ERROR.log, saved LaTeX, upload), and a step of one request leaves the
\* candidate, the attempt counter and every other local of the others alone.
C20_RequestsShareNoFileAndNoLocal ==
  [][/\ NoSharedName'
     /\ \A r, q \in Requests :
          (r # q /\ requests'[r] # requests[r]) => requests'[q] = requests[q]]_vars

\* two requests in flight have each written the error log of the same attempt
C20_Witness ==
  /\ \A r \in Requests : requests[r].pc = "compile" /\ requests[r].attempt = 1
  /\ \E f, g \in files :
       /\ f.writer # g.writer
       /\ f.name.id = "ERROR" /\ g.name.id = "ERROR"
       /\ f.name.prefix.n = 0 /\ g.name.prefix.n = 0

\* C21: every terminal response of enhance_resume that carries
\* compilation_attempts, SUCCESS and EXHAUSTED alike, reports the number of
\* fix_latex_compilation_errors calls made during the request.
C21_ReportedAttemptsAreRepairCalls ==
  (pc = "done" /\ response.kind \in {"SUCCESS", "EXHAUSTED"})
    => response.compilation_attempts = repair_calls

\* the output PDF exists with a size above zero after the second pass
PdfProduced ==
  \/ call.passes[2].pdf = "written"
  \/ call.passes[2].pdf = "untouched" /\ call.passes[1].pdf = "written"

BothPassesEnd == call.passes[1].end = "exit" /\ call.passes[2].end = "exit"

\* C22: compile_latex_to_pdf runs both pdflatex passes when neither times out
\* or raises, and then reports success exactly when the output PDF exists
\* with a size above zero after the second pass, whatever the exit codes; a
\* timeout or exception in either pass gives failure with no diagnostic log.
C22_SuccessIffPdfAfterBothPasses ==
  call.fn = "compile" =>
    LET success == call.result.value[1]
        log_output == call.result.value[3]
    IN  /\ ~call.result.raised
        /\ BothPassesEnd => (call.passes_run = 2 /\ (success <=> PdfProduced))
        /\ ~BothPassesEnd => (~success /\ log_output = None)

\* both passes end with exit code 1, the first one having written the PDF
C22_Witness ==
  /\ call.fn = "compile"
  /\ call.passes[1] = [end |-> "exit", returncode |-> 1, pdf |-> "written"]
  /\ call.passes[2] = [end |-> "exit", returncode |-> 1, pdf |-> "untouched"]
  /\ call.passes_run = 2
  /\ call.result.value[1]

====
